---- MODULE Spec2Model ----
(***************************************************************************)
(* MmapArena (rapidquilt/arena/mmap_arena.rs): worker threads call         *)
(* load_file, load_symlink_target and stats on one shared arena; the       *)
(* arena keeps a Mutex<Vec<Resource>> and unmaps the mappings in Drop.     *)
(* The address space and the file system are modelled only as far as the   *)
(* arena's system calls (open, fstat, mmap, readlink, munmap) observe      *)
(* them.                                                                   *)
(***************************************************************************)
EXTENDS Integers, Sequences, FiniteSets, TLC

(* ---------------------------------------------------------------- bounds *)
\* worker threads sharing the arena: NUM_THREADS of the parallel tests
NUM_THREADS == 2
\* calls the workers make on the arena, all together
MaxCalls == 3
\* bytes of address space mmap may hand out
NumAddr == 3

Threads == 1..NUM_THREADS

\* Mutex state: 0 is unlocked, otherwise the holder
Unlocked == 0
\* the thread that runs Drop (the owner of the arena)
Dropper == NUM_THREADS + 1

\* libc::MAP_FAILED, (void *) -1
MAP_FAILED == -1

(* ----------------------------------------------------------- file system *)
\* The file system does not change during the run (the arena documents
\* changes made by other processes as not handled).
Paths == {"a", "b", "e", "l", "n"}

\* kind "file": bytes is the content; kind "link": bytes is the link text;
\* kind "none": no such entry.
FileSystem ==
    [p \in Paths |->
        CASE p = "a" -> [kind |-> "file", bytes |-> <<1, 2>>]
          [] p = "b" -> [kind |-> "file", bytes |-> <<3>>]
          [] p = "e" -> [kind |-> "file", bytes |-> <<>>]
          [] p = "l" -> [kind |-> "link", bytes |-> <<4>>]
          [] OTHER   -> [kind |-> "none", bytes |-> <<>>]]

\* the paths the workers pass to load_file: two files, an empty file and a
\* path that does not exist
LoadFileArgs == {"a", "b", "e", "n"}

\* the paths the workers pass to load_symlink_target: a link and a regular file
LoadSymlinkArgs == {"l", "a"}

\* File::open(path) succeeds on an existing regular file
OpenOk(p) == FileSystem[p].kind = "file"

\* fs::read_link(path) succeeds on a symbolic link only
ReadLinkOk(p) == FileSystem[p].kind = "link"

\* the target read_link yields: the link text, nothing when it failed
LinkText(p) == IF ReadLinkOk(p) THEN FileSystem[p].bytes ELSE <<>>

\* longest link text, for the size of the allocator's region
MaxTarget == Len(FileSystem["l"].bytes)

\* mmap places mappings in MapAddr; the allocator places boxes in HeapAddr
MapAddr == 1..NumAddr
HeapAddr == (NumAddr + 1)..(NumAddr + MaxCalls * MaxTarget)
AllAddr == MapAddr \cup HeapAddr

VARIABLES
    resources,  \* the Vec<Resource> inside the Mutex
    lock,       \* the Mutex: Unlocked or its holder
    poisoned,   \* the Mutex's poison flag
    arena,      \* "alive", "dropping" (inside Drop::drop), "dropped"
    dropIdx,    \* Drop's position in resources.iter()
    mem,        \* address space: 0 = nothing mapped there, else the byte
    pc,         \* each worker's position
    op,         \* the Arena method of the worker's current (or last) call
    path,       \* its path argument
    fdOpen,     \* load_file: `file` is open
    loc,        \* the call's locals: size, start, data (load_*), idx, total (stats)
    result,     \* stats: the Stats returned
    ret,        \* outcome of the current call: "none", "ok", "err", "panic"
    calls,      \* number of calls the worker has made
    sys,        \* history: system calls of the current call, in order
    views,      \* history: the views returned to callers
    created,    \* history: the mappings mmap has created
    munmapLog   \* history: the munmap calls made, in order

workers == <<pc, op, path, fdOpen, loc, result, ret, calls, sys>>
registry == <<resources, lock, poisoned>>
teardown == <<arena, dropIdx, munmapLog>>
vars == <<resources, lock, poisoned, arena, dropIdx, mem, pc, op, path, fdOpen,
          loc, result, ret, calls, sys, views, created, munmapLog>>

(* ------------------------------------------------------------- resources *)
\* load_file recording an owned buffer of the file's length instead of the mapping
MappingRes_owned(s, n, who) ==
    [kind |-> "Data", start |-> s, size |-> 0, data |-> [i \in 1..n |-> 0], by |-> who]

\* Resource::Mapping(Mapping { start, size }); by names the call that made it
MappingRes(s, n, who) ==
    [kind |-> "Mapping", start |-> s, size |-> n, data |-> <<>>, by |-> who]

\* Resource::Data(Box<[u8]>): the box's address and its bytes
DataRes(s, d, who) ==
    [kind |-> "Data", start |-> s, size |-> 0, data |-> d, by |-> who]

\* a fold that reads the size field of every entry
ResSize_field(r) == r.size

\* the match in stats: m.size for a Mapping, d.len() for Data
ResSize(r) == IF r.kind = "Mapping" THEN r.size ELSE Len(r.data)

\* a store into the last slot instead of a new one: the entry there is lost
Push_lost(reg, r) == IF reg = <<>> THEN <<r>> ELSE [reg EXCEPT ![Len(reg)] = r]

\* an insert at the front: the entries already there move
Push_front(reg, r) == <<r>> \o reg

\* a registry that keeps one entry per content: a resource of the kind and
\* length of one already recorded is not recorded again
Push_dedup(reg, r) ==
    IF \E i \in 1..Len(reg) : reg[i].kind = r.kind /\ ResSize(reg[i]) = ResSize(r)
    THEN reg
    ELSE Append(reg, r)

\* Vec::push
Push(reg, r) == Append(reg, r)

\* an Err that is not propagated: the call goes on
IsErr_ignored(ok) == FALSE

\* the `?` after File::open, metadata and read_link: an Err returns at once
IsErr(ok) == ~ok

\* a check against the null pointer, which mmap never returns on failure
IsMapFailed_null(s) == s = 0

\* the check after mmap: start == libc::MAP_FAILED
IsMapFailed(s) == s = MAP_FAILED

\* a lock that does not exclude: it is granted while another thread holds it
CanAcquire_any(t) == TRUE

\* Mutex::lock blocks until the mutex is free
CanAcquire(t) == lock = Unlocked

(* --------------------------------------------------------- address space *)
Range(s, n) == s..(s + n - 1)

\* a kernel asked to map at a fixed address: the range need not be free
FreeRange_fixed(area, s, n) == \A a \in Range(s, n) : a \in area

\* mmap(ptr::null_mut(), ...) without MAP_FIXED: the kernel places the new
\* mapping only where nothing is mapped
FreeRange(area, s, n) == \A a \in Range(s, n) : a \in area /\ mem[a] = 0

\* mmap / allocation with the bytes copied in
MapBytes(m, s, bytes) ==
    [a \in AllAddr |-> IF a \in Range(s, Len(bytes)) THEN bytes[a - s + 1] ELSE m[a]]

\* munmap(start, size) and deallocation: nothing is mapped in the range afterwards
Unmap(m, s, n) == [a \in AllAddr |-> IF a \in Range(s, n) THEN 0 ELSE m[a]]

\* the bytes a slice (base, len) reads; 0 where nothing is mapped
ReadBytes(m, s, n) ==
    [i \in 1..n |-> IF s + i - 1 \in AllAddr THEN m[s + i - 1] ELSE 0]

RECURSIVE FreeData(_, _, _)
\* dropping the Vec<Resource>: every Box<[u8]> is deallocated, a Mapping has no Drop
FreeData(m, reg, i) ==
    IF i > Len(reg) THEN m
    ELSE FreeData(IF reg[i].kind = "Data" THEN Unmap(m, reg[i].start, Len(reg[i].data)) ELSE m,
                  reg, i + 1)

(* ------------------------------------------------------------------ Init *)
\* the path argument of a worker that is not inside a call
NoPath == ""

\* the locals of a worker that is not inside a call
NoLocals == [size |-> 0, start |-> 0, data |-> <<>>, idx |-> 0, total |-> 0]

Init ==
    /\ resources = <<>>
    /\ lock = Unlocked
    /\ poisoned = FALSE
    /\ arena = "alive"
    /\ dropIdx = 0
    /\ mem = [a \in AllAddr |-> 0]
    /\ pc = [t \in Threads |-> "idle"]
    /\ op = [t \in Threads |-> "none"]
    /\ path = [t \in Threads |-> NoPath]
    /\ fdOpen = [t \in Threads |-> FALSE]
    /\ loc = [t \in Threads |-> NoLocals]
    /\ result = [t \in Threads |-> [loaded_files |-> 0, total_size |-> 0]]
    /\ ret = [t \in Threads |-> "none"]
    /\ calls = [t \in Threads |-> 0]
    /\ sys = [t \in Threads |-> <<>>]
    /\ views = {}
    /\ created = {}
    /\ munmapLog = <<>>

\* the id of worker t's current call
CallId(t) == <<t, calls[t]>>

RECURSIVE CallsUpTo(_)
\* calls made by workers 1..n
CallsUpTo(n) == IF n = 0 THEN 0 ELSE calls[n] + CallsUpTo(n - 1)

\* a worker starts a call: the arena is borrowed, so it is alive
Call(t, o, p, first) ==
    /\ arena = "alive"
    /\ pc[t] = "idle"
    /\ CallsUpTo(NUM_THREADS) < MaxCalls
    /\ pc' = [pc EXCEPT ![t] = first]
    /\ op' = [op EXCEPT ![t] = o]
    /\ path' = [path EXCEPT ![t] = p]
    /\ calls' = [calls EXCEPT ![t] = @ + 1]
    /\ ret' = [ret EXCEPT ![t] = "none"]
    /\ sys' = [sys EXCEPT ![t] = <<>>]
    /\ UNCHANGED <<registry, teardown, mem, fdOpen, loc, result, views, created>>

\* a call that took the descriptor out of `file` (into_raw_fd) in place of
\* borrowing it: nothing closes it when the call ends
Leave_rawfd(t, r) ==
    /\ path' = [path EXCEPT ![t] = NoPath]
    /\ pc' = [pc EXCEPT ![t] = IF r = "panic" THEN "panicked" ELSE "idle"]
    /\ ret' = [ret EXCEPT ![t] = r]
    /\ fdOpen' = fdOpen
    /\ loc' = [loc EXCEPT ![t] = NoLocals]

\* the call ends with outcome r ("ok", "err" or "panic"): the arguments and
\* locals go out of scope, `file` among them; a panicking thread unwinds and ends
Leave(t, r) ==
    /\ path' = [path EXCEPT ![t] = NoPath]
    /\ pc' = [pc EXCEPT ![t] = IF r = "panic" THEN "panicked" ELSE "idle"]
    /\ ret' = [ret EXCEPT ![t] = r]
    /\ fdOpen' = [fdOpen EXCEPT ![t] = FALSE]
    /\ loc' = [loc EXCEPT ![t] = NoLocals]

\* the call moves on to its next statement
Goto(t, next) ==
    /\ pc' = [pc EXCEPT ![t] = next]
    /\ UNCHANGED ret

\* history of the system calls a call makes
Sys(t, name, ok) == sys' = [sys EXCEPT ![t] = Append(@, <<name, ok>>)]

(* ------------------------------------------------------------- load_file *)
CallLoadFile(t) == \E p \in LoadFileArgs : Call(t, "load_file", p, "lf_open")

\* load_file taking the registry lock before it opens the file
LfOpen_locked(t) ==
    /\ pc[t] = "lf_open"
    /\ CanAcquire(t)
    /\ lock' = t
    /\ Sys(t, "open", OpenOk(path[t]))
    /\ IF ~IsErr(OpenOk(path[t]))
       THEN /\ Goto(t, "lf_meta")
            /\ fdOpen' = [fdOpen EXCEPT ![t] = TRUE]
            /\ UNCHANGED <<loc, path>>
       ELSE Leave(t, "err")
    /\ UNCHANGED <<resources, poisoned, teardown, mem, op, result, calls, views, created>>

\* let file = File::open(path)?;
LfOpen(t) ==
    /\ pc[t] = "lf_open"
    /\ Sys(t, "open", OpenOk(path[t]))
    /\ IF ~IsErr(OpenOk(path[t]))
       THEN /\ Goto(t, "lf_meta")
            /\ fdOpen' = [fdOpen EXCEPT ![t] = TRUE]
            /\ UNCHANGED <<loc, path>>
       ELSE Leave(t, "err")
    /\ UNCHANGED <<registry, teardown, mem, op, result, calls, views, created>>

\* a length read one byte short of the file's
MetadataLen_short(p) ==
    IF Len(FileSystem[p].bytes) > 0 THEN Len(FileSystem[p].bytes) - 1 ELSE 0

\* file.metadata()?.len() as usize: the byte length of the open file (a u64
\* length fits usize on the 64-bit targets, where the cast changes nothing)
MetadataLen(p) == Len(FileSystem[p].bytes)

\* mmap(null, size, PROT_READ, MAP_PRIVATE, fd, 0): the pages show the first
\* size bytes of the file, from offset zero
MappedContent(p, n) == SubSeq(FileSystem[p].bytes, 1, n)

\* let size = file.metadata()?.len() as usize;
LfMeta(t) ==
    /\ pc[t] = "lf_meta"
    /\ \E ok \in BOOLEAN :
        /\ Sys(t, "fstat", ok)
        /\ IF ~IsErr(ok)
           THEN /\ loc' = [loc EXCEPT ![t].size = MetadataLen(path[t])]
                /\ Goto(t, "lf_mmap")
                /\ UNCHANGED <<fdOpen, path>>
           ELSE Leave(t, "err")
    /\ UNCHANGED <<registry, teardown, mem, op, result, calls, views, created>>

\* what libc::mmap(null, size, PROT_READ, MAP_PRIVATE, fd, 0) may return: an
\* address where the whole file fits, or MAP_FAILED (always for size 0)
MmapReturns(n) ==
    {MAP_FAILED} \cup {s \in MapAddr : n > 0 /\ FreeRange(MapAddr, s, n)}

\* let start = unsafe { libc::mmap(...); if start == MAP_FAILED { return Err } start };
\* let mapping = Mapping { start, size }; let slice = from_raw_parts(start, size);
LfMmap(t) ==
    /\ pc[t] = "lf_mmap"
    /\ \E s \in MmapReturns(loc[t].size) :
        /\ Sys(t, "mmap", s # MAP_FAILED)
        /\ IF s # MAP_FAILED
           THEN /\ mem' = MapBytes(mem, s, MappedContent(path[t], loc[t].size))
                /\ created' = created \cup
                      {[start |-> s, size |-> loc[t].size, by |-> CallId(t)]}
           ELSE UNCHANGED <<mem, created>>
        /\ IF IsMapFailed(s)
           THEN Leave(t, "err")
           ELSE /\ loc' = [loc EXCEPT ![t].start = s]
                /\ Goto(t, "lf_lock")
                /\ UNCHANGED <<fdOpen, path>>
    /\ UNCHANGED <<registry, teardown, op, result, calls, views>>

\* self.resources.lock().unwrap(): blocks until the mutex is free; on a
\* poisoned mutex unwrap panics and the guard inside the error is dropped
Lock(t, next) ==
    /\ CanAcquire(t)
    /\ IF poisoned
       THEN /\ Leave(t, "panic")
            /\ UNCHANGED lock
       ELSE /\ lock' = t
            /\ Goto(t, next)
            /\ UNCHANGED <<fdOpen, loc, path>>
    /\ UNCHANGED <<resources, poisoned>>

LfLock(t) ==
    /\ pc[t] = "lf_lock"
    /\ Lock(t, "lf_push")
    /\ UNCHANGED <<teardown, mem, op, result, calls, sys, views, created>>

\* a guard that is leaked (mem::forget) instead of dropped: the append is
\* made and the mutex stays locked
PushAndUnlock_held(t, r, next) ==
    /\ lock' = lock
    /\ resources' = Push(resources, r)
    /\ Goto(t, next)
    /\ UNCHANGED <<poisoned, fdOpen, loc, path>>

\* .push(r); the guard is dropped at the end of the statement.  Vec::push
\* panics when it cannot grow ("capacity overflow", or an allocation error
\* hook that unwinds): the guard is then dropped by a panicking thread, which
\* poisons the mutex
PushAndUnlock(t, r, next) ==
    /\ lock' = Unlocked
    /\ \/ /\ resources' = Push(resources, r)
          /\ Goto(t, next)
          /\ UNCHANGED <<poisoned, fdOpen, loc, path>>
       \/ /\ poisoned' = TRUE
          /\ Leave(t, "panic")
          /\ UNCHANGED resources

\* self.resources.lock().unwrap().push(Resource::Mapping(mapping));
LfPush(t) ==
    /\ pc[t] = "lf_push"
    /\ PushAndUnlock(t, MappingRes(loc[t].start, loc[t].size, CallId(t)), "lf_ret")
    /\ UNCHANGED <<teardown, mem, op, result, calls, sys, views, created>>

\* the view handed to the caller, with the bytes it read when it was issued
View(t, base, len) ==
    [by |-> CallId(t), op |-> op[t], path |-> path[t], base |-> base, len |-> len,
     bytes |-> ReadBytes(mem, base, len)]

\* Ok(slice); `file` is dropped
LfRet(t) ==
    /\ pc[t] = "lf_ret"
    /\ Leave(t, "ok")
    /\ views' = views \cup {View(t, loc[t].start, loc[t].size)}
    /\ UNCHANGED <<registry, teardown, mem, op, result, calls, sys, created>>

(* --------------------------------------------------- load_symlink_target *)
CallLoadSymlinkTarget(t) ==
    \E p \in LoadSymlinkArgs : Call(t, "load_symlink_target", p, "ls_readlink")

\* let target = fs::read_link(path)?;
\* let data = target.as_os_str().as_bytes().to_vec().into_boxed_slice();
\* let slice = transmute::<&[u8], &'a [u8]>(&data);
LsReadLink(t) ==
    /\ pc[t] = "ls_readlink"
    /\ Sys(t, "readlink", ReadLinkOk(path[t]))
    /\ IF ~IsErr(ReadLinkOk(path[t]))
       THEN \E s \in HeapAddr :
              /\ FreeRange(HeapAddr, s, Len(LinkText(path[t])))
              /\ mem' = MapBytes(mem, s, LinkText(path[t]))
              /\ loc' = [loc EXCEPT ![t].data = LinkText(path[t]), ![t].start = s]
              /\ Goto(t, "ls_lock")
              /\ UNCHANGED <<fdOpen, path>>
       ELSE /\ Leave(t, "err")
            /\ UNCHANGED mem
    /\ UNCHANGED <<registry, teardown, op, result, calls, views, created>>

\* self.resources.lock().unwrap(): a panic here drops `data`
LsLock(t) ==
    /\ pc[t] = "ls_lock"
    /\ Lock(t, "ls_push")
    /\ mem' = IF poisoned THEN Unmap(mem, loc[t].start, Len(loc[t].data)) ELSE mem
    /\ UNCHANGED <<teardown, op, result, calls, sys, views, created>>

\* .push(Resource::Data(data)): a panic in push drops the resource it was given
LsPush(t) ==
    /\ pc[t] = "ls_push"
    /\ PushAndUnlock(t, DataRes(loc[t].start, loc[t].data, CallId(t)), "ls_ret")
    /\ mem' = IF poisoned' THEN Unmap(mem, loc[t].start, Len(loc[t].data)) ELSE mem
    /\ UNCHANGED <<teardown, op, result, calls, sys, views, created>>

\* Ok(slice)
LsRet(t) ==
    /\ pc[t] = "ls_ret"
    /\ Leave(t, "ok")
    /\ views' = views \cup {View(t, loc[t].start, Len(loc[t].data))}
    /\ UNCHANGED <<registry, teardown, mem, op, result, calls, sys, created>>

(* ----------------------------------------------------------------- stats *)
CallStats(t) == Call(t, "stats", path[t], "st_lock")

\* let resources = self.resources.lock().unwrap(); let mut total_size = 0;
StLock(t) ==
    /\ pc[t] = "st_lock"
    /\ CanAcquire(t)
    /\ IF poisoned
       THEN /\ Leave(t, "panic")
            /\ UNCHANGED lock
       ELSE /\ lock' = t
            /\ Goto(t, "st_loop")
            /\ loc' = [loc EXCEPT ![t].idx = 1, ![t].total = 0]
            /\ UNCHANGED <<fdOpen, path>>
    /\ UNCHANGED <<resources, poisoned, teardown, mem, op, result, calls, sys,
                   views, created>>

\* for r in resources.iter() { total_size += match r { ... } }
StLoop(t) ==
    /\ pc[t] = "st_loop"
    /\ IF loc[t].idx <= Len(resources)
       THEN /\ loc' = [loc EXCEPT ![t].total = @ + ResSize(resources[loc[t].idx]),
                                  ![t].idx = @ + 1]
            /\ UNCHANGED pc
       ELSE /\ pc' = [pc EXCEPT ![t] = "st_ret"]
            /\ UNCHANGED loc
    /\ UNCHANGED <<registry, teardown, mem, op, path, fdOpen, result, ret, calls, sys,
                   views, created>>

\* a stats that takes the entries out of the registry (mem::take) to fold them
StRet_take(t) ==
    /\ pc[t] = "st_ret"
    /\ result' = [result EXCEPT ![t] =
                    [loaded_files |-> Len(resources), total_size |-> loc[t].total]]
    /\ resources' = <<>>
    /\ lock' = Unlocked
    /\ Leave(t, "ok")
    /\ UNCHANGED <<poisoned, teardown, mem, op, calls, sys, views, created>>

\* Stats { loaded_files: resources.len(), total_size }; the guard is dropped
StRet(t) ==
    /\ pc[t] = "st_ret"
    /\ result' = [result EXCEPT ![t] =
                    [loaded_files |-> Len(resources), total_size |-> loc[t].total]]
    /\ lock' = Unlocked
    /\ Leave(t, "ok")
    /\ UNCHANGED <<resources, poisoned, teardown, mem, op, calls, sys, views,
                   created>>

(* ------------------------------------------------------------------ Drop *)
\* drop takes &mut self: no worker is inside a call or will make another
Quiescent == \A t \in Threads : pc[t] \in {"idle", "panicked"}

\* a drop that unwrapped the lock result would panic on a poisoned mutex
DropOnPoison_unwrap == "panic"

\* if let Ok(resources) = self.resources.lock(): the Err of a poisoned mutex
\* does not match the pattern, so the body is skipped and nothing is raised
DropOnPoison == "skip"

\* if let Ok(resources) = self.resources.lock() { ... }: on a poisoned mutex
\* the body is skipped; the fields are dropped after drop() returns
DropLock ==
    /\ arena = "alive"
    /\ Quiescent
    /\ lock = Unlocked
    /\ IF poisoned
       THEN /\ arena' = IF DropOnPoison = "skip" THEN "dropped" ELSE "drop_panicked"
            /\ mem' = FreeData(mem, resources, 1)
            /\ UNCHANGED <<lock, dropIdx>>
       ELSE /\ arena' = "dropping"
            /\ lock' = Dropper
            /\ dropIdx' = 1
            /\ UNCHANGED mem
    /\ UNCHANGED <<resources, poisoned, munmapLog, workers, views, created>>

\* for r in resources.iter() { if let Resource::Mapping(m) = r { libc::munmap(m.start, m.size); } }
DropLoop ==
    /\ arena = "dropping"
    /\ dropIdx <= Len(resources)
    /\ IF resources[dropIdx].kind = "Mapping"
       THEN /\ mem' = Unmap(mem, resources[dropIdx].start, resources[dropIdx].size)
            /\ munmapLog' = Append(munmapLog,
                   [start |-> resources[dropIdx].start, size |-> resources[dropIdx].size])
       ELSE UNCHANGED <<mem, munmapLog>>
    /\ dropIdx' = dropIdx + 1
    /\ UNCHANGED <<registry, arena, workers, views, created>>

\* the guard is dropped, drop() returns and the fields are dropped
DropEnd ==
    /\ arena = "dropping"
    /\ dropIdx > Len(resources)
    /\ arena' = "dropped"
    /\ lock' = Unlocked
    /\ mem' = FreeData(mem, resources, 1)
    /\ UNCHANGED <<resources, poisoned, dropIdx, munmapLog, workers, views, created>>

(* ------------------------------------------------------------------ Next *)
Next ==
    \/ \E t \in Threads : CallLoadFile(t)
    \/ \E t \in Threads : LfOpen(t)
    \/ \E t \in Threads : LfMeta(t)
    \/ \E t \in Threads : LfMmap(t)
    \/ \E t \in Threads : LfLock(t)
    \/ \E t \in Threads : LfPush(t)
    \/ \E t \in Threads : LfRet(t)
    \/ \E t \in Threads : CallLoadSymlinkTarget(t)
    \/ \E t \in Threads : LsReadLink(t)
    \/ \E t \in Threads : LsLock(t)
    \/ \E t \in Threads : LsPush(t)
    \/ \E t \in Threads : LsRet(t)
    \/ \E t \in Threads : CallStats(t)
    \/ \E t \in Threads : StLock(t)
    \/ \E t \in Threads : StLoop(t)
    \/ \E t \in Threads : StRet(t)
    \/ DropLock
    \/ DropLoop
    \/ DropEnd

Spec == Init /\ [][Next]_vars

\* the statements of a call a worker has entered: a running thread goes on to
\* its next statement, a system call returns, a free mutex is handed over
WorkerStep(t) ==
    \/ LfOpen(t) \/ LfMeta(t) \/ LfMmap(t) \/ LfLock(t) \/ LfPush(t) \/ LfRet(t)
    \/ LsReadLink(t) \/ LsLock(t) \/ LsPush(t) \/ LsRet(t)
    \/ StLock(t) \/ StLoop(t) \/ StRet(t)

\* fair scheduling of the workers; whether a worker makes another call, and
\* when the arena is dropped, is left open
FairSpec == Spec /\ \A t \in Threads : WF_vars(WorkerStep(t))

(* ================================================================ claims *)
\* a view still reads the bytes it was issued with, all of them mapped
ViewIntact(v) ==
    \A i \in 1..v.len : v.bytes[i] # 0 /\ ReadBytes(mem, v.base, v.len)[i] = v.bytes[i]

\* the registry still holds the view's resource, at the view's base and length
ViewBacked(v) ==
    \E i \in 1..Len(resources) :
        /\ resources[i].by = v.by
        /\ resources[i].start = v.base
        /\ ResSize(resources[i]) = v.len

\* C1: before the arena is dropped, every view returned by load_file or
\* load_symlink_target still refers to a live resource at the base address and
\* length it was issued with, and reads the bytes it read when issued.
ViewsStayValid ==
    arena = "alive" => \A v \in views : ViewIntact(v) /\ ViewBacked(v)

\* a view was issued, a later load has registered and a stats call has returned
ViewsStayValid_Witness ==
    /\ arena = "alive"
    /\ \E v \in views : resources # <<>> /\ resources[1].by = v.by
    /\ Len(resources) >= 2
    /\ \E t \in Threads : op[t] = "stats" /\ ret[t] = "ok"

\* the entries of the registry that are mappings
MappingsOf(reg) == {i \in 1..Len(reg) : reg[i].kind = "Mapping"}

\* the {start, size} pair recorded in a Mapping
Pair(r) == [start |-> r.start, size |-> r.size]

\* how often munmap was called with a pair
UnmapCount(p) == Cardinality({j \in 1..Len(munmapLog) : munmapLog[j] = p})

\* what C2 asks of a teardown
TeardownExact ==
    /\ \A i \in MappingsOf(resources) : UnmapCount(Pair(resources[i])) = 1
    /\ \A j \in 1..Len(munmapLog) :
          \E i \in MappingsOf(resources) : Pair(resources[i]) = munmapLog[j]

\* C2: when the arena is destroyed, every Mapping in the registry is unmapped
\* exactly once, with the {start, size} pair recorded when it was created; no
\* munmap call has another pair or the address of a Data buffer.
DropUnmapsEveryMapping == arena = "dropped" => TeardownExact

\* the part of C2 the code keeps: a teardown that finds the mutex not poisoned
\* unmaps every recorded Mapping exactly once with its recorded pair
DropUnmapsWhenNotPoisoned == (arena = "dropped" /\ ~poisoned) => TeardownExact

\* a teardown of a registry that holds a Mapping and a Data buffer
DropUnmapsWhenNotPoisoned_Witness ==
    /\ arena = "dropped"
    /\ ~poisoned
    /\ MappingsOf(resources) # {}
    /\ \E i \in 1..Len(resources) : resources[i].kind = "Data"

(* ------------------------------------------------------- C3, C4, C5 *)
\* every load that has registered has also returned
AllReturned == \A u \in Threads : pc[u] \notin {"lf_ret", "ls_ret"}

FileSize(p) == Len(FileSystem[p].bytes)

RECURSIVE SumFileSizes(_)
\* the sizes of the files a set of views was loaded from, added up
SumFileSizes(S) ==
    IF S = {} THEN 0
    ELSE LET v == CHOOSE x \in S : TRUE IN FileSize(v.path) + SumFileSizes(S \ {v})

RECURSIVE SumLens(_)
\* the lengths of a set of views, added up
SumLens(S) ==
    IF S = {} THEN 0
    ELSE LET v == CHOOSE x \in S : TRUE IN v.len + SumLens(S \ {v})

\* the registry entries a call has made
EntriesBy(who) == {i \in 1..Len(resources) : resources[i].by = who}

\* worker t's stats call returns in this step
StatsReturns(t) == pc[t] = "st_ret" /\ pc'[t] = "idle"

\* each worker has made one successful load_file call as its first call, all
\* on distinct files, these calls have returned and no other load succeeded
OneLoadEach ==
    /\ Cardinality(views) = NUM_THREADS
    /\ \A u \in Threads : \E v \in views : v.by = <<u, 1>> /\ v.op = "load_file"
    /\ \A v, w \in views : v # w => v.path # w.path
    /\ AllReturned

OneLoadEach_Registry ==
    OneLoadEach =>
        /\ Len(resources) = NUM_THREADS
        /\ \A v \in views :
              /\ Cardinality(EntriesBy(v.by)) = 1
              /\ \A i \in EntriesBy(v.by) :
                    resources[i].kind = "Mapping" /\ resources[i].size = FileSize(v.path)

OneLoadEach_Stats ==
    \A t \in Threads :
        (OneLoadEach /\ StatsReturns(t)) =>
            result'[t] = [loaded_files |-> NUM_THREADS, total_size |-> SumFileSizes(views)]

\* C3: once K threads have each returned from one successful load_file on a
\* distinct file, the registry holds exactly K entries, one per call, each with
\* the size of the file that call loaded, and a stats call then returns K
\* files and the sum of the file sizes.
ConcurrentLoadsAllRegistered == []OneLoadEach_Registry /\ [][OneLoadEach_Stats]_vars

\* both workers loaded a file each and a stats call after them has returned
ConcurrentLoadsAllRegistered_Witness ==
    /\ OneLoadEach
    /\ \E t \in Threads :
          op[t] = "stats" /\ ret[t] = "ok" /\ result[t].loaded_files = NUM_THREADS

StatsCountsViews ==
    \A t \in Threads :
        (AllReturned /\ StatsReturns(t)) =>
            result'[t] = [loaded_files |-> Cardinality(views), total_size |-> SumLens(views)]

\* C4: a stats call made when N loads have returned successfully (load_file
\* and load_symlink_target in any mix, by any threads, with any number of
\* failed loads) returns loaded_files = N and total_size = the sum of the
\* lengths of the N views.
StatsMatchesViews == [][StatsCountsViews]_vars

\* stats returned 2 after a load_file and a load_symlink_target
StatsMatchesViews_Witness ==
    /\ \E v \in views : v.op = "load_file"
    /\ \E v \in views : v.op = "load_symlink_target"
    /\ \E t \in Threads :
          op[t] = "stats" /\ ret[t] = "ok" /\ result[t].loaded_files = 2

\* new is old with one entry added at the end
IsAppend(old, new) == Len(new) = Len(old) + 1 /\ SubSeq(new, 1, Len(old)) = old

\* worker t's load registers in this step
Registers(t) == pc[t] \in {"lf_push", "ls_push"} /\ pc'[t] \in {"lf_ret", "ls_ret"}

RegistryOnlyAppends ==
    arena = "alive" =>
        /\ \/ resources' = resources
           \/ /\ IsAppend(resources, resources')
              /\ \E t \in Threads :
                    Registers(t) /\ resources'[Len(resources')].by = CallId(t)
        /\ \A t \in Threads : Registers(t) => IsAppend(resources, resources')

OneEntryPerLoad ==
    /\ \A v \in views : Cardinality(EntriesBy(v.by)) = 1
    /\ \A t \in Threads :
          pc[t] \in {"lf_ret", "ls_ret"} => Cardinality(EntriesBy(CallId(t))) = 1

\* C5: the registry is append-only while the arena lives: every step leaves
\* it unchanged or adds one entry at the end, the entry of the load that
\* registers in that step, and every successful load has exactly one entry.
RegistryAppendOnly == []OneEntryPerLoad /\ [][RegistryOnlyAppends]_vars

\* two loads have registered and returned
RegistryAppendOnly_Witness ==
    arena = "alive" /\ Len(resources) >= 2 /\ Cardinality(views) >= 2

(* ------------------------------------------------------------ C6, C7 *)
\* the system calls of a load_file call, in the order of the code
LoadFileCalls == <<"open", "fstat", "mmap">>

\* the call has made no entry and handed out no view
NothingRegistered(t) ==
    EntriesBy(CallId(t)) = {} /\ \A v \in views : v.by # CallId(t)

\* the current call's last system call failed
LastFailed(t) == sys[t] # <<>> /\ ~sys[t][Len(sys[t])][2]

LoadFileFailure ==
    \A t \in Threads :
        op[t] = "load_file" =>
            /\ Len(sys[t]) <= Len(LoadFileCalls)
            /\ \A i \in 1..Len(sys[t]) :
                  /\ sys[t][i][1] = LoadFileCalls[i]
                  /\ ~sys[t][i][2] => i = Len(sys[t])
            /\ LastFailed(t) => (ret[t] = "err" /\ pc[t] = "idle" /\ NothingRegistered(t))
            /\ ret[t] = "err" => LastFailed(t)

LoadFileLeavesRegistry ==
    \A t \in Threads :
        (pc[t] \in {"lf_open", "lf_meta", "lf_mmap"} /\ pc'[t] # pc[t]) =>
            resources' = resources

\* C6: a load_file call whose open, metadata or mmap step fails returns an
\* error at that step, having made each system call at most once, and neither
\* the failing step nor any step before it changes the registry.
LoadFileFailsClean == []LoadFileFailure /\ [][LoadFileLeavesRegistry]_vars

\* one load_file failed at mmap and another at open, with a registry that is
\* not empty
LoadFileFailsClean_Witness ==
    /\ resources # <<>>
    /\ \E t, u \in Threads :
          /\ op[t] = "load_file" /\ ret[t] = "err" /\ Len(sys[t]) = 3
          /\ op[u] = "load_file" /\ ret[u] = "err" /\ Len(sys[u]) = 1

SymlinkFailure ==
    \A t \in Threads :
        op[t] = "load_symlink_target" =>
            /\ Len(sys[t]) <= 1
            /\ \A i \in 1..Len(sys[t]) : sys[t][i][1] = "readlink"
            /\ LastFailed(t) => (ret[t] = "err" /\ pc[t] = "idle" /\ NothingRegistered(t))
            /\ ret[t] = "err" => LastFailed(t)

SymlinkLeavesRegistry ==
    \A t \in Threads :
        (pc[t] = "ls_readlink" /\ pc'[t] # pc[t]) => resources' = resources

\* C7: a load_symlink_target call whose read_link fails returns an error and
\* registers nothing; the step leaves the registry unchanged.
SymlinkFailsClean == []SymlinkFailure /\ [][SymlinkLeavesRegistry]_vars

\* load_symlink_target failed on a regular file, with a registry that is not
\* empty
SymlinkFailsClean_Witness ==
    /\ resources # <<>>
    /\ \E t \in Threads : op[t] = "load_symlink_target" /\ ret[t] = "err"

(* ---------------------------------------------------------------- C8 *)
\* the call with this id has ended, by return or by panic
CallEnded(who) == calls[who[1]] > who[2] \/ pc[who[1]] \in {"idle", "panicked"}

\* C8: every mapping an mmap call created is recorded in the registry by the
\* time its load_file call ends, and after the arena has been dropped no
\* mapping created through it remains mapped.
NoMappingLeaked ==
    /\ \A c \in created :
          CallEnded(c.by) =>
              \E i \in MappingsOf(resources) :
                  resources[i].by = c.by /\ Pair(resources[i]) = [start |-> c.start, size |-> c.size]
    /\ arena = "dropped" =>
          \A c \in created : \A a \in Range(c.start, c.size) : mem[a] = 0

(* ---------------------------------------------------------------- C9 *)
Loads == {"load_file", "load_symlink_target"}

LockOnlyForAppend ==
    \A t \in Threads :
        /\ pc[t] \in {"lf_open", "lf_meta", "lf_mmap", "ls_readlink"} => lock # t
        /\ (lock = t /\ op[t] \in Loads) =>
              /\ pc[t] \in {"lf_push", "ls_push"}
              /\ sys[t] # <<>>
              /\ ~LastFailed(t)
              /\ op[t] = "load_file" => Len(sys[t]) = Len(LoadFileCalls)

SyscallsOutsideLock ==
    \A t \in Threads :
        /\ sys'[t] # sys[t] => (lock # t /\ lock' # t)
        /\ (lock = t /\ op[t] \in Loads /\ pc'[t] # pc[t]) =>
              (lock' = Unlocked /\ (Registers(t) \/ pc'[t] = "panicked"))

\* C9: a worker inside load_file or load_symlink_target does not hold the
\* registry lock at any of its system calls: open, metadata, mmap and
\* read_link have completed when the lock is taken, and the one step made
\* with the lock is the append, which releases it.
LockNotHeldInSyscalls == []LockOnlyForAppend /\ [][SyscallsOutsideLock]_vars

\* one worker holds the lock for its append while the other is at mmap
LockNotHeldInSyscalls_Witness ==
    \E t, u \in Threads :
        lock = t /\ pc[t] \in {"lf_push", "ls_push"} /\ pc[u] = "lf_mmap"

(* --------------------------------------------------------------- C10 *)
\* the length a resource contributes
EntryLen(r) == IF r.kind = "Data" THEN Len(r.data) ELSE r.size

RECURSIVE SumEntries(_)
SumEntries(reg) == IF reg = <<>> THEN 0 ELSE EntryLen(Head(reg)) + SumEntries(Tail(reg))

\* count and size sum of a registry
StatsOf(reg) == [loaded_files |-> Len(reg), total_size |-> SumEntries(reg)]

SnapshotIsPrefix ==
    \A t \in Threads :
        /\ pc[t] \in {"st_loop", "st_ret"} => lock = t
        /\ (op[t] = "stats" /\ ret[t] = "ok") =>
              \E n \in 0..Len(resources) : result[t] = StatsOf(SubSeq(resources, 1, n))

SnapshotAtOneInstant ==
    \A t \in Threads :
        /\ pc[t] \in {"st_loop", "st_ret"} => resources' = resources
        /\ StatsReturns(t) => result'[t] = StatsOf(resources)

\* C10: stats returns the count and the size sum of the registry as it stands
\* throughout the fold (no load registers between the lock and the return),
\* so its result is that of one prefix of the registration order, and a load
\* that registers later changes neither field.
StatsIsSnapshot == []SnapshotIsPrefix /\ [][SnapshotAtOneInstant]_vars

\* stats returned while a load was in flight, and the load registered after it
StatsIsSnapshot_Witness ==
    \E t \in Threads :
        /\ op[t] = "stats" /\ ret[t] = "ok"
        /\ result[t].loaded_files >= 1
        /\ result[t].loaded_files < Len(resources)

(* ---------------------------------------------------------------- C11 *)
\* C11: dropping the arena never panics and always completes: with a poisoned
\* registry lock Drop skips the unmap loop and ends at once, raising nothing;
\* with a sound lock it holds the guard and walks the registry to its end.
DropNeverPanics ==
    /\ arena \in {"alive", "dropping", "dropped"}
    /\ arena = "dropping" =>
          /\ ~poisoned
          /\ lock = Dropper
          /\ dropIdx \in 1..(Len(resources) + 1)
    /\ (arena = "dropped" /\ poisoned) => munmapLog = <<>>
    /\ arena = "dropped" => lock = Unlocked

\* a thread panicked while holding the lock, entries were registered before
\* that, and the arena has been dropped all the same
DropNeverPanics_Witness ==
    /\ arena = "dropped"
    /\ poisoned
    /\ Len(resources) > 0
    /\ \E t \in Threads : pc[t] = "panicked"

(* ---------------------------------------------------------------- C12 *)
\* C12: the view a successful load_file returns is as long as the file and
\* reads, byte for byte from offset zero, the content of the file: the
\* mapping covers the whole file, nothing more and nothing less.
WholeFileMapped ==
    \A v \in views :
        v.op = "load_file" =>
            /\ v.len = Len(FileSystem[v.path].bytes)
            /\ \A i \in 1..Len(FileSystem[v.path].bytes) :
                  i <= v.len /\ v.bytes[i] = FileSystem[v.path].bytes[i]

\* both files have been loaded, the two-byte one among them
WholeFileMapped_Witness ==
    /\ \E v \in views : v.op = "load_file" /\ v.path = "a" /\ v.len = 2
    /\ \E v \in views : v.op = "load_file" /\ v.path = "b"

(* ---------------------------------------------------------------- C13 *)
\* two views issued by two successful calls of one operation on one path
SamePathLoads(v, w) == v # w /\ v.op = w.op /\ v.path = w.path

\* the registry without the entries of two calls
WithoutCalls(reg, a, b) == SelectSeq(reg, LAMBDA r : r.by \notin {a, b})

\* each of the two loads has its own entry and its own region, with equal content
TwoLoadsTwoResources ==
    \A v, w \in views :
        SamePathLoads(v, w) =>
            /\ v.len = w.len
            /\ v.bytes = w.bytes
            /\ Range(v.base, v.len) \cap Range(w.base, w.len) = {}
            /\ Cardinality(EntriesBy(v.by)) = 1
            /\ Cardinality(EntriesBy(w.by)) = 1
            /\ EntriesBy(v.by) # EntriesBy(w.by)
            /\ \A i \in EntriesBy(v.by) \cup EntriesBy(w.by) :
                  /\ resources[i].start \in {v.base, w.base}
                  /\ ResSize(resources[i]) = v.len

\* a stats call returning after both loads counts both: 2 entries and twice
\* the length on top of what the rest of the registry adds
TwoLoadsCountedTwice ==
    \A t \in Threads :
        StatsReturns(t) =>
            \A v, w \in views :
                SamePathLoads(v, w) =>
                    LET rest == WithoutCalls(resources, v.by, w.by)
                    IN result'[t] = [loaded_files |-> Len(rest) + 2,
                                     total_size   |-> SumEntries(rest) + 2 * v.len]

\* C13: loads are not deduplicated by path: two successful loads of one path
\* append two separate resources, return two views of equal content over
\* disjoint regions, and add 2 to loaded_files and twice the length to
\* total_size of a later stats().
NoDeduplication == []TwoLoadsTwoResources /\ [][TwoLoadsCountedTwice]_vars

\* one path was loaded twice and a stats call after that returned 2 files
NoDeduplication_Witness ==
    /\ \E v, w \in views : SamePathLoads(v, w) /\ v.op = "load_file"
    /\ \E t \in Threads :
          /\ op[t] = "stats" /\ ret[t] = "ok"
          /\ result[t].loaded_files = 2
          /\ result[t].total_size = 2

(* ---------------------------------------------------------------- C15 *)
\* the variant an operation registers
VariantOf(o) == IF o = "load_file" THEN "Mapping" ELSE "Data"

\* every entry was made by a call that returned a view or by a worker's
\* current (or last) call, and has the variant of that call's operation
EntryVariantByOperation ==
    \A i \in 1..Len(resources) :
        /\ \/ \E v \in views : v.by = resources[i].by
           \/ \E t \in Threads : CallId(t) = resources[i].by
        /\ \A v \in views :
              v.by = resources[i].by => resources[i].kind = VariantOf(v.op)
        /\ \A t \in Threads :
              CallId(t) = resources[i].by =>
                  /\ op[t] \in {"load_file", "load_symlink_target"}
                  /\ resources[i].kind = VariantOf(op[t])

\* a Mapping entry is a region mmap returned to the same call; a Data entry
\* lies on the heap
EntryVariantByRegion ==
    \A i \in 1..Len(resources) :
        IF resources[i].kind = "Mapping"
        THEN /\ resources[i].start \in MapAddr
             /\ \E c \in created :
                   /\ c.by = resources[i].by
                   /\ c.start = resources[i].start
                   /\ c.size = resources[i].size
        ELSE /\ resources[i].kind = "Data"
             /\ resources[i].start \in HeapAddr

\* heap memory is held only by Data entries and by load_symlink_target calls
\* that have read their link and not registered it yet
HeapOnlyForSymlinks ==
    \A a \in HeapAddr :
        mem[a] # 0 =>
            \/ \E i \in 1..Len(resources) :
                  /\ resources[i].kind = "Data"
                  /\ a \in Range(resources[i].start, Len(resources[i].data))
            \/ \E t \in Threads :
                  /\ op[t] = "load_symlink_target"
                  /\ pc[t] \in {"ls_lock", "ls_push"}
                  /\ a \in Range(loc[t].start, Len(loc[t].data))

\* a load_file call whose mmap failed registers nothing and returns no view
NoFallbackAfterFailedMmap ==
    \A t \in Threads :
        (op[t] = "load_file" /\ sys[t] # <<>> /\ sys[t][Len(sys[t])] = <<"mmap", FALSE>>) =>
            /\ ret[t] = "err"
            /\ pc[t] = "idle"
            /\ NothingRegistered(t)

\* C15: the variant of a registry entry is fixed by the operation that made
\* it: load_file appends Mapping entries only, load_symlink_target Data
\* entries only, and a failed mmap never leaves load_file registering or
\* returning an owned buffer in place of the mapping.
VariantFixedByOperation ==
    /\ EntryVariantByOperation
    /\ EntryVariantByRegion
    /\ HeapOnlyForSymlinks
    /\ NoFallbackAfterFailedMmap

\* the registry holds an entry of each variant, and a load_file call has
\* failed at mmap
VariantFixedByOperation_Witness ==
    /\ \E i \in 1..Len(resources) : resources[i].kind = "Mapping"
    /\ \E i \in 1..Len(resources) : resources[i].kind = "Data"
    /\ \E t \in Threads :
          /\ op[t] = "load_file"
          /\ sys[t] # <<>>
          /\ sys[t][Len(sys[t])] = <<"mmap", FALSE>>

(* ---------------------------------------------------------------- C16 *)
\* worker t is inside a call
InCall(t) == pc[t] \notin {"idle", "panicked"}

\* C16 as stated: under fair scheduling every load_file, load_symlink_target
\* and stats call a worker has entered eventually returns to its caller.
EveryCallReturns ==
    \A t \in Threads : InCall(t) ~> (pc[t] = "idle" /\ ret[t] \in {"ok", "err"})

\* C16: the registry lock is always released after the append or the fold,
\* so no call waits for ever: under fair scheduling a worker that holds the
\* lock gives it up, and every call entered ends, by returning Ok or Err or,
\* when push panics or the mutex is found poisoned, by unwinding.
EveryCallEnds ==
    /\ \A t \in Threads : (lock = t) ~> (lock # t)
    /\ \A t \in Threads : InCall(t) ~> ~InCall(t)

\* a worker is folding the statistics under the lock while another waits to
\* register the file it has mapped
EveryCallEnds_Witness ==
    \E t, u \in Threads :
        /\ lock = t
        /\ pc[t] = "st_loop"
        /\ pc[u] = "lf_lock"

(* ---------------------------------------------------------------- C17 *)
\* the statements of load_file at which `file` is in scope and open
FileInScope == {"lf_meta", "lf_mmap", "lf_lock", "lf_push", "lf_ret"}

\* a descriptor is open exactly while a load_file call is between its open
\* and its end; no worker outside a call holds one
DescriptorOnlyInsideCall ==
    \A t \in Threads :
        /\ fdOpen[t] <=> (op[t] = "load_file" /\ pc[t] \in FileInScope)
        /\ ~InCall(t) => ~fdOpen[t]

\* while the arena lives, every region mmap returned is still mapped, whether
\* or not the descriptor it was made from is still open
MappingOutlivesDescriptor ==
    arena = "alive" =>
        /\ \A c \in created : \A a \in Range(c.start, c.size) : mem[a] # 0
        /\ \A v \in views : v.op = "load_file" => ViewIntact(v)

\* C17: on every exit path of load_file the descriptor the call opened is
\* closed when the call ends: no descriptor is open between calls, and a
\* mapping that was created stays in place after its descriptor is closed.
DescriptorClosedAtExit == DescriptorOnlyInsideCall /\ MappingOutlivesDescriptor

\* load_file has ended on its three exit paths: one call returned a view that
\* is still readable, one failed at metadata, one failed at mmap; no
\* descriptor is open
DescriptorClosedAtExit_Witness ==
    /\ arena = "alive"
    /\ \A t \in Threads : ~InCall(t) /\ ~fdOpen[t]
    /\ \E v \in views : v.op = "load_file" /\ ViewIntact(v)
    /\ \E t, u \in Threads :
          /\ op[t] = "load_file" /\ op[u] = "load_file"
          /\ sys[t] # <<>> /\ sys[t][Len(sys[t])] = <<"fstat", FALSE>>
          /\ sys[u] # <<>> /\ sys[u][Len(sys[u])] = <<"mmap", FALSE>>

(* ---------------------------------------------------------------- C18 *)
\* worker t takes a step of a stats call in this step: it enters the call,
\* takes the lock, reads an entry or returns
StatsStep(t) ==
    /\ \/ pc[t] \in {"st_lock", "st_loop", "st_ret"}
       \/ pc[t] = "idle" /\ pc'[t] = "st_lock"
    /\ pc'[t] # pc[t] \/ loc'[t] # loc[t]

\* no step of a stats call changes the registry, the memory or what the
\* loads have handed out
StatsChangesNothing ==
    \A t \in Threads :
        StatsStep(t) =>
            /\ resources' = resources
            /\ poisoned' = poisoned
            /\ mem' = mem
            /\ views' = views
            /\ created' = created
            /\ munmapLog' = munmapLog

\* a stats call returns what an earlier stats call returned when no load has
\* registered since: the registry only grows and a result counts the entries
\* there were, so none was added exactly when the earlier count is the
\* registry's length now
StatsRepeats ==
    \A t \in Threads :
        StatsReturns(t) =>
            /\ result[t].loaded_files = Len(resources) => result'[t] = result[t]
            /\ \A u \in Threads \ {t} :
                  (op[u] = "stats" /\ ret[u] = "ok"
                      /\ result[u].loaded_files = Len(resources))
                  => result'[t] = result[u]

\* C18: stats() is read-only: a stats() call leaves the registry (entries,
\* order, addresses, sizes) and every mapping as they were, and two stats()
\* calls with no load registering between them return the same result.
StatsReadOnly == [][StatsChangesNothing /\ StatsRepeats]_vars

\* two workers have each had a stats() result for a registry of one entry
\* that is still mapped
StatsReadOnly_Witness ==
    /\ arena = "alive"
    /\ Len(resources) = 1
    /\ \A a \in Range(resources[1].start, ResSize(resources[1])) : mem[a] # 0
    /\ \A t \in Threads :
          /\ op[t] = "stats" /\ ret[t] = "ok"
          /\ result[t] = [loaded_files |-> 1, total_size |-> ResSize(resources[1])]

====
